---------------------------- MODULE Spec2Model ----------------------------
(***************************************************************************)
(* r.fire.spread: wrapper that drives r.ros and r.spread over a sequence   *)
(* of time segments.  The module models the time-discretisation functions  *)
(* (determine_simulation_times, times_to_intervals,                        *)
(* data_indexes_for_intervals, output_names_for_intervals), the plan that  *)
(* main builds from them and the sequential loop of simulate_fire.         *)
(*                                                                         *)
(* Python lists are TLA+ sequences; Python indexes are kept 0-based in the *)
(* values (a data index 0 is the first element), so list[i] is seq[i + 1]. *)
(* An interval (start, end) is the tuple <<start, end>>.                   *)
(***************************************************************************)
EXTENDS Integers, Sequences, FiniteSets, TLC

VARIABLES
    pc,             \* position of the program / of the function under test
    time_step,      \* options['time_step']
    max_time,       \* options['lag']
    change_times,   \* options['times'] (data_times of the index mapper)
    sim_times,      \* simulation_times of main (input of times_to_intervals)
    intervals,      \* simulation_intervals
    ret,            \* outcome of the pure function under test
    params,         \* sim_params (FireSimulationParams)
    data_indexes,   \* data_indexes handed to simulate_fire
    outputs,        \* outputs handed to simulate_fire
    index,          \* loop index of simulate_fire (0-based)
    start_raster,   \* the seed: start artifact of the next r.spread
    rros_params,    \* keyword arguments of r.ros, kept across iterations
    log,            \* the external commands invoked so far, in order
    rasters         \* the raster maps that exist in the mapset

plan == <<sim_times, intervals, data_indexes, outputs>>
inputs == <<time_step, max_time, change_times, params>>
run == <<index, start_raster, rros_params, log, rasters>>
vars == <<pc, time_step, max_time, change_times, sim_times, intervals, ret, params,
          data_indexes, outputs, index, start_raster, rros_params, log, rasters>>

-----------------------------------------------------------------------------
(* Bounds of the explored inputs *)

MaxStep == 3        \* time_step ranges over 1..MaxStep
MaxTime == 6        \* max_time ranges over 0..MaxTime
MaxChanges == 3     \* change_times has 1..MaxChanges elements
MaxIdxTime == 3     \* interval bounds of the index mapper range over 0..MaxIdxTime
MaxIntervals == 3   \* the index mapper is given 1..MaxIntervals intervals
MaxLag == 4         \* max_time of a run of main ranges over 0..MaxLag
MaxNamed == 3       \* the output namer is given 1..MaxNamed intervals
MaxFairLag == 3     \* max_time of a run checked for termination ranges over 0..MaxFairLag

-----------------------------------------------------------------------------
(* Generic helpers for Python lists *)

SeqsUpTo(S, n) == UNION { [1..k -> S] : k \in 1..n }

NonDecreasing(s) == \A j \in 1..(Len(s) - 1) : s[j] <= s[j + 1]

StrictlyAscending(s) == \A j \in 1..(Len(s) - 1) : s[j] < s[j + 1]

Elements(s) == { s[j] : j \in 1..Len(s) }

Min(S) == CHOOSE x \in S : \A y \in S : x <= y

Max(S) == CHOOSE x \in S : \A y \in S : y <= x

\* sorted(set(...)): the ascending list of the members of a finite set
RECURSIVE sorted(_)
sorted(S) == IF S = {} THEN <<>> ELSE <<Min(S)>> \o sorted(S \ {Min(S)})

\* range(0, stop, step) for step > 0
range(stop, step) == { t \in 0..(IF stop > 0 THEN stop - 1 ELSE 0) : t < stop /\ t % step = 0 }

\* outcomes of a call: a returned list or a raised exception
Returned(v) == [status |-> "returned", value |-> v]
Raised(e)  == [status |-> e, value |-> <<>>]
NotCalled  == [status |-> "not called", value |-> <<>>]

-----------------------------------------------------------------------------
(* determine_simulation_times *)

\* the condition under which the pending change time is inserted
InsertsChange_strictLost(next_change_time, current_time, step) ==
    next_change_time >= current_time /\ next_change_time < current_time + step

InsertsChange(next_change_time, current_time, step) ==
    next_change_time > current_time /\ next_change_time < current_time + step

\* the while loop; idx is current_change_time_index
RECURSIVE dst_loop(_, _, _, _, _, _, _)
dst_loop(step, maxt, changes, current_time, simulation_times, idx, next_change_time) ==
    IF ~(current_time < maxt)
    THEN simulation_times
    ELSE LET ins    == InsertsChange(next_change_time, current_time, step)
             times1 == IF ins THEN Append(simulation_times, next_change_time)
                              ELSE simulation_times
             idx1   == IF ins /\ idx + 1 < Len(changes) THEN idx + 1 ELSE idx
             next1  == IF ins /\ ~(idx1 + 1 >= Len(changes))
                       THEN changes[idx1 + 1 + 1]
                       ELSE next_change_time
             t1     == current_time + step
         IN  IF t1 > maxt
             THEN times1
             ELSE dst_loop(step, maxt, changes, t1, Append(times1, t1), idx1, next1)

determine_simulation_times(step, maxt, changes) ==
    IF Len(changes) < 2
    THEN Raised("IndexError")      \* change_times[current_change_time_index + 1]
    ELSE Returned(dst_loop(step, maxt, changes, 0, <<0>>, 0, changes[2]))

-----------------------------------------------------------------------------
(* times_to_intervals *)

times_to_intervals_dropLast(simulation_times) ==
    [i \in 1..(IF Len(simulation_times) > 2 THEN Len(simulation_times) - 2 ELSE 0) |->
        <<simulation_times[i], simulation_times[i + 1]>>]

times_to_intervals(simulation_times) ==
    [i \in 1..(IF Len(simulation_times) > 1 THEN Len(simulation_times) - 1 ELSE 0) |->
        <<simulation_times[i], simulation_times[i + 1]>>]

-----------------------------------------------------------------------------
(* data_indexes_for_intervals *)

Unbound == -1       \* current_data before its first assignment

\* the cursor after a match: advanced unless it is on the last element
AdvanceCursor_noClamp(i, n) == i + 1

AdvanceCursor(i, n) == IF i + 1 < n THEN i + 1 ELSE i

\* the for loop; j is the (1-based) position in intervals
RECURSIVE dii_loop(_, _, _, _, _, _)
dii_loop(ivals, data_times, j, i, current_data, indexes) ==
    IF j > Len(ivals)
    THEN Returned(indexes)
    ELSE IF i + 1 > Len(data_times)
    THEN Raised("IndexError")                  \* data_times[i]
    ELSE IF data_times[i + 1] = ivals[j][1]
    THEN dii_loop(ivals, data_times, j + 1,
                  AdvanceCursor(i, Len(data_times)), i, Append(indexes, i))
    ELSE IF current_data = Unbound
    THEN Raised("UnboundLocalError")           \* current_data read before assignment
    ELSE dii_loop(ivals, data_times, j + 1, i, current_data,
                  Append(indexes, current_data))

data_indexes_for_intervals(ivals, data_times) ==
    dii_loop(ivals, data_times, 1, 0, Unbound, <<>>)


-----------------------------------------------------------------------------
(* output_names_for_intervals; a name is the list of its characters *)

Digit(d) == CASE d = 0 -> "0" [] d = 1 -> "1" [] d = 2 -> "2" [] d = 3 -> "3"
              [] d = 4 -> "4" [] d = 5 -> "5" [] d = 6 -> "6" [] d = 7 -> "7"
              [] d = 8 -> "8" [] d = 9 -> "9"

\* str(number) for number >= 0
RECURSIVE str(_)
str(number) == IF number < 10 THEN <<Digit(number)>>
               ELSE Append(str(number \div 10), Digit(number % 10))

\* int(log(number, 10)) + 1 in double precision, for 1 <= number < 2000000:
\* log(1000, 10) is 2.9999999999999996 and log(1000000, 10) is
\* 5.999999999999999, every other quotient truncates to the digit count - 1
number_lenght(number) ==
    IF number \in {1000, 1000000} THEN Len(str(number)) - 1 ELSE Len(str(number))

RECURSIVE zfill(_, _)
zfill(chars, zeros) == IF Len(chars) >= zeros THEN chars ELSE zfill(<<"0">> \o chars, zeros)

format_order(number, zeros) == zfill(str(number), zeros)

output_names_for_intervals(basename, ivals) ==
    IF Len(ivals) = 0
    THEN Raised("IndexError")                             \* intervals[-1]
    ELSE LET maximum == ivals[Len(ivals)][2]
             lenght  == number_lenght(maximum)
         IN  Returned([j \in 1..Len(ivals) |->
                          basename \o <<"_">> \o format_order(ivals[j][2], lenght)])

-----------------------------------------------------------------------------
(* FireSimulationParams as main fills it *)

None == [none |-> TRUE, items |-> <<>>]

\* the list a multiple option is split into: element k of option name
Vector(name, n) == [none |-> FALSE, items |-> [k \in 1..n |-> <<name, k - 1>>]]

\* truth value of a vector in an if statement: None and [] are false
Truthy(v) == ~v.none /\ Len(v.items) > 0

OptionalVectors ==
    <<"moistures_1h", "moistures_10h", "moistures_100h", "wind_directions", "wind_velocities">>

\* the vectors in the order in which main checks their lengths
CheckedVectors == <<"moistures_live">> \o OptionalVectors

\* the r.ros key each optional vector is passed as
RosKey_windSwapped(v) ==
             CASE v = "moistures_live" -> "moisture_live"
               [] v = "moistures_1h" -> "moisture_1h"
               [] v = "moistures_10h" -> "moisture_10h"
               [] v = "moistures_100h" -> "moisture_100h"
               [] v = "wind_directions" -> "velocity"
               [] v = "wind_velocities" -> "direction"

RosKey(v) == CASE v = "moistures_live" -> "moisture_live"
               [] v = "moistures_1h" -> "moisture_1h"
               [] v = "moistures_10h" -> "moisture_10h"
               [] v = "moistures_100h" -> "moisture_100h"
               [] v = "wind_directions" -> "direction"
               [] v = "wind_velocities" -> "velocity"

basename == <<"f">>                    \* options['output']
StartRaster == <<"s", "t", "a", "r", "t">>   \* options['start']

\* the combinations of optional vectors explored
PresenceChoices ==
    { {}, {"moistures_1h"}, {"wind_directions", "wind_velocities"}, Elements(OptionalVectors) }

\* lengths of the vectors (-1: the option was not given); at most one present
\* vector (bad) has a length that differs from n
LengthChoices(n) ==
    { [v \in Elements(CheckedVectors) |->
          IF v \notin present \cup {"moistures_live"} THEN -1
          ELSE IF v = bad THEN m ELSE n] :
        present \in PresenceChoices,
        bad \in Elements(CheckedVectors) \cup {"none"},
        m \in {n - 1, n + 1} \ {0} }

ParamsOf(f) ==
    [v \in Elements(CheckedVectors) |-> IF f[v] = -1 THEN None ELSE Vector(v, f[v])]

-----------------------------------------------------------------------------
(* State of a run of simulate_fire *)

ros_basename == <<"rfirespread_rros_out">>
ros_base == ros_basename \o <<".base">>
ros_max == ros_basename \o <<".max">>
ros_maxdir == ros_basename \o <<".maxdir">>
RosRasters == {ros_base, ros_max, ros_maxdir}

\* d[k] = v on a Python dict
DictSet(d, k, v) == [x \in (DOMAIN d) \cup {k} |-> IF x = k THEN v ELSE d[x]]

\* rros_params as built before the loop
InitialRosParams ==
    [k \in {"model", "slope", "aspect", "elevation", "output"} |->
        IF k = "output" THEN ros_basename ELSE <<k>>]

\* the assignments made to rros_params at the head of iteration idx
RECURSIVE AssignVectors(_, _, _, _)
AssignVectors(d, p, k, j) ==
    IF j > Len(CheckedVectors) THEN d
    ELSE LET v == CheckedVectors[j]
         IN  IF v = "moistures_live" \/ Truthy(p[v])
             THEN AssignVectors(DictSet(d, RosKey(v), p[v].items[k + 1]), p, k, j + 1)
             ELSE AssignVectors(d, p, k, j + 1)

\* one external command: the segment it belongs to, its arguments and its status
Invocation(cmd, args, status) == [cmd |-> cmd, index |-> index, args |-> args, ret |-> status]

NoRunExceptTimes ==
    /\ params = ParamsOf([v \in Elements(CheckedVectors) |-> -1])
    /\ data_indexes = <<>>
    /\ outputs = <<>>
    /\ index = 0
    /\ start_raster = <<>>
    /\ rros_params = InitialRosParams
    /\ log = <<>>
    /\ rasters = {}

NoRun == sim_times = <<>> /\ NoRunExceptTimes

-----------------------------------------------------------------------------
(* Inputs *)

ChangeTimesUpTo(t) ==
    { s \in SeqsUpTo(0..t, MaxChanges) : s[1] = 0 /\ NonDecreasing(s) }

IntervalLists ==
    { s \in SeqsUpTo((0..MaxIdxTime) \X (0..MaxIdxTime), MaxIntervals) : s[1][1] = 0 }

\* strictly ascending checkpoint sequences starting at 0
CheckpointSeqs ==
    { s \in SeqsUpTo(0..MaxIdxTime, MaxIntervals + 1) : s[1] = 0 /\ StrictlyAscending(s) }

-----------------------------------------------------------------------------
(* Specification SpecTimes: determine_simulation_times applied to bounded inputs *)

InitTimes ==
    /\ pc = "call_times"
    /\ time_step \in 1..MaxStep
    /\ max_time \in 0..MaxTime
    /\ change_times \in ChangeTimesUpTo(MaxTime + 1)
    /\ intervals = <<>>
    /\ ret = NotCalled
    /\ NoRun

Call_determine_simulation_times ==
    /\ pc = "call_times"
    /\ pc' = "done_times"
    /\ ret' = determine_simulation_times(time_step, max_time, change_times)
    /\ UNCHANGED <<inputs, plan, run>>

NextTimes == Call_determine_simulation_times

SpecTimes == InitTimes /\ [][NextTimes]_vars

-----------------------------------------------------------------------------
(* Specification SpecIndexes: data_indexes_for_intervals applied to bounded inputs *)

InitIndexes ==
    /\ pc = "call_indexes"
    /\ time_step = 1
    /\ max_time = 0
    /\ change_times \in ChangeTimesUpTo(MaxIdxTime)
    /\ intervals \in IntervalLists
    /\ ret = NotCalled
    /\ NoRun

Call_data_indexes_for_intervals ==
    /\ pc = "call_indexes"
    /\ pc' = "done_indexes"
    /\ ret' = data_indexes_for_intervals(intervals, change_times)
    /\ UNCHANGED <<inputs, plan, run>>

NextIndexes == Call_data_indexes_for_intervals

SpecIndexes == InitIndexes /\ [][NextIndexes]_vars


-----------------------------------------------------------------------------
(* Specification SpecIntervals: times_to_intervals applied to bounded inputs *)

\* every list of at most MaxIntervals + 1 times, the empty list included
TimeLists == {<<>>} \cup SeqsUpTo(0..MaxIdxTime, MaxIntervals + 1)

InitIntervals ==
    /\ pc = "call_intervals"
    /\ time_step = 1
    /\ max_time = 0
    /\ change_times = <<0>>
    /\ intervals = <<>>
    /\ ret = NotCalled
    /\ NoRunExceptTimes
    /\ sim_times \in TimeLists

Call_times_to_intervals ==
    /\ pc = "call_intervals"
    /\ pc' = "done_intervals"
    /\ ret' = Returned(times_to_intervals(sim_times))
    /\ UNCHANGED <<inputs, plan, run>>

NextIntervals == Call_times_to_intervals

SpecIntervals == InitIntervals /\ [][NextIntervals]_vars

-----------------------------------------------------------------------------
(* Specification SpecNames: output_names_for_intervals applied to bounded inputs *)

\* end times on both sides of every change of the decimal digit count up to 1000
EndTimes == {1, 4, 9, 10, 26, 99, 100, 150, 999, 1000}

\* contiguous intervals with strictly increasing positive end times
NamedIntervalLists ==
    { times_to_intervals(<<0>> \o s) :
        s \in { t \in SeqsUpTo(EndTimes, MaxNamed) : StrictlyAscending(t) } }

InitNames ==
    /\ pc = "call_names"
    /\ time_step = 1
    /\ max_time = 0
    /\ change_times = <<0>>
    /\ intervals \in NamedIntervalLists
    /\ ret = NotCalled
    /\ NoRun

Call_output_names_for_intervals ==
    /\ pc = "call_names"
    /\ pc' = "done_names"
    /\ ret' = output_names_for_intervals(basename, intervals)
    /\ UNCHANGED <<inputs, plan, run>>

NextNames == Call_output_names_for_intervals

SpecNames == InitNames /\ [][NextNames]_vars

-----------------------------------------------------------------------------
(* Specification Spec: a run of main and of the loop of simulate_fire.  A    *)
(* command returns 0 or a failure status; gcore.fatal ends the process.     *)

Init ==
    /\ pc = "main"
    /\ time_step \in 1..MaxStep
    /\ max_time \in 0..MaxLag
    /\ change_times \in ChangeTimesUpTo(MaxLag + 1)
    /\ params \in { ParamsOf(f) : f \in LengthChoices(Len(change_times)) }
    /\ sim_times = <<>>
    /\ intervals = <<>>
    /\ data_indexes = <<>>
    /\ outputs = <<>>
    /\ ret = NotCalled
    /\ index = 0
    /\ start_raster = <<>>
    /\ rros_params = InitialRosParams
    /\ log = <<>>
    /\ rasters = {}

\* a present vector whose length differs from number_of_changes
LengthsMismatch_shorterOnly(p, number_of_changes) ==
    \E j \in 1..Len(CheckedVectors) :
        ~p[CheckedVectors[j]].none /\ Len(p[CheckedVectors[j]].items) < number_of_changes

LengthsMismatch_longerOnly(p, number_of_changes) ==
    \E j \in 1..Len(CheckedVectors) :
        ~p[CheckedVectors[j]].none /\ Len(p[CheckedVectors[j]].items) > number_of_changes

LengthsMismatch(p, number_of_changes) ==
    \E j \in 1..Len(CheckedVectors) :
        ~p[CheckedVectors[j]].none /\ Len(p[CheckedVectors[j]].items) # number_of_changes

\* export_times = range(0, max_time + 1, time_step)
export_times_noHorizon(maxt, step) == range(maxt, step)

export_times(maxt, step) == range(maxt + 1, step)

\* sorted(set(export_times + change_times))
simulation_times_of_exportOnly(maxt, step, changes) ==
    sorted(export_times(maxt, step))

simulation_times_of(maxt, step, changes) ==
    sorted(export_times(maxt, step) \cup Elements(changes))

\* main up to the first external command: the length check, the plan and the
\* prologue of simulate_fire
main ==
    /\ pc = "main"
    /\ IF LengthsMismatch(params, Len(change_times))
       THEN /\ pc' = "fatal_lengths"
            /\ UNCHANGED <<plan, run>>
       ELSE LET simulation_intervals ==
                    times_to_intervals(simulation_times_of(max_time, time_step, change_times))
                indexes == data_indexes_for_intervals(simulation_intervals, change_times)
                names == output_names_for_intervals(basename, simulation_intervals)
            IN  /\ sim_times' = simulation_times_of(max_time, time_step, change_times)
                /\ intervals' = simulation_intervals
                /\ data_indexes' = indexes.value
                /\ outputs' = names.value
                /\ IF indexes.status # "returned"
                   THEN pc' = indexes.status /\ UNCHANGED run
                   ELSE IF names.status # "returned"
                   THEN pc' = names.status /\ UNCHANGED run
                   ELSE /\ start_raster' = StartRaster
                        /\ rros_params' = InitialRosParams
                        /\ index' = 0
                        /\ pc' = IF Len(simulation_intervals) > 0 THEN "r.ros" ELSE "Succeeded"
                        /\ UNCHANGED <<log, rasters>>
    /\ UNCHANGED <<inputs, ret>>

\* the mapset after a command: a command that returns a failure status is
\* taken to have left the mapset as it was
Effect(ok, before, after) == IF ok THEN after ELSE before

\* a list is read out of range at the head of iteration idx: data_indexes[index]
\* or the element data_indexes[index] of a vector that is passed to r.ros
HeadIndexError(p, indexes, idx) ==
    \/ idx + 1 > Len(indexes)
    \/ \E j \in 1..Len(CheckedVectors) :
          /\ CheckedVectors[j] = "moistures_live" \/ Truthy(p[CheckedVectors[j]])
          /\ indexes[idx + 1] + 1 > Len(p[CheckedVectors[j]].items)

\* lines 461-475
run_r_ros ==
    /\ pc = "r.ros"
    /\ IF HeadIndexError(params, data_indexes, index)
       THEN /\ pc' = "IndexError"
            /\ UNCHANGED <<rros_params, log, rasters>>
       ELSE \E ok \in BOOLEAN :
            /\ rros_params' = AssignVectors(rros_params, params, data_indexes[index + 1], 1)
            /\ log' = Append(log, Invocation("r.ros", rros_params', IF ok THEN 0 ELSE 1))
            /\ rasters' = Effect(ok, rasters, rasters \cup RosRasters)
            /\ pc' = IF ok THEN "r.spread" ELSE "Aborted"
    /\ UNCHANGED <<inputs, plan, ret, index, start_raster>>

\* the destination of the r.spread call of iteration idx
SpreadOutput_first(outs, idx) == outs[1]

SpreadOutput_last(outs, idx) == outs[Len(outs)]

SpreadOutput(outs, idx) == outs[idx + 1]

\* the lag of the r.spread call: the length of the interval
Lag_end(interval) == interval[2]

Lag(interval) == interval[2] - interval[1]

\* lines 476-484: r.spread, then r.info is read, then ret is examined;
\* outputs[index] raises IndexError when outputs is shorter than the intervals
run_r_spread ==
    /\ pc = "r.spread"
    /\ IF index + 1 > Len(outputs)
       THEN /\ pc' = "IndexError"
            /\ UNCHANGED <<log, rasters>>
       ELSE \E ok \in BOOLEAN :
            LET interval == intervals[index + 1]
                spread == Invocation("r.spread",
                            [max |-> ros_max, dir |-> ros_maxdir, base |-> ros_base,
                             start |-> start_raster, output |-> SpreadOutput(outputs, index),
                             init_time |-> interval[1], lag |-> Lag(interval)],
                            IF ok THEN 0 ELSE 1)
                info == Invocation("r.info", [map |-> outputs[index + 1]], 0)
            IN  /\ log' = log \o <<spread, info>>
                /\ rasters' = Effect(ok, rasters, rasters \cup {SpreadOutput(outputs, index)})
                /\ pc' = IF ok THEN "g.remove" ELSE "Aborted"
    /\ UNCHANGED <<inputs, plan, ret, index, start_raster, rros_params>>

\* the maps g.remove is asked to remove
RemovedRasters_noMaxdir == <<ros_base, ros_max>>

RemovedRasters == <<ros_base, ros_max, ros_maxdir>>

\* lines 485-489
run_g_remove ==
    /\ pc = "g.remove"
    /\ \E ok \in BOOLEAN :
        /\ log' = Append(log, Invocation("g.remove",
                                [rast |-> RemovedRasters],
                                IF ok THEN 0 ELSE 1))
        /\ rasters' = Effect(ok, rasters, rasters \ Elements(RemovedRasters))
        /\ pc' = IF ok THEN "r.null" ELSE "Aborted"
    /\ UNCHANGED <<inputs, plan, ret, index, start_raster, rros_params>>

\* lines 490-492
run_r_null ==
    /\ pc = "r.null"
    /\ \E ok \in BOOLEAN :
        /\ log' = Append(log, Invocation("r.null",
                                [map |-> outputs[index + 1], setnull |-> 0],
                                IF ok THEN 0 ELSE 1))
        /\ pc' = IF ok THEN "r.colors" ELSE "Aborted"
    /\ UNCHANGED <<inputs, plan, ret, index, start_raster, rros_params, rasters>>

\* the seed after a completed iteration
NextSeed_keep(seed, outs, idx) == seed

NextSeed(seed, outs, idx) == outs[idx + 1]

\* whether the for loop has a further interval after iteration idx
HasNext_skipLast(idx, n) == idx + 1 < n - 1

HasNext_always(idx, n) == TRUE

HasNext(idx, n) == idx + 1 < n

\* lines 493-501 and the loop's advance
run_r_colors ==
    /\ pc = "r.colors"
    /\ \E ok \in BOOLEAN :
        /\ log' = Append(log, Invocation("r.colors",
                                [map |-> outputs[index + 1], rules |-> "-"],
                                IF ok THEN 0 ELSE 1))
        /\ IF ok
           THEN /\ start_raster' = NextSeed(start_raster, outputs, index)
                /\ index' = index + 1
                /\ pc' = IF HasNext(index, Len(intervals)) THEN "r.ros" ELSE "Succeeded"
           ELSE /\ pc' = "Aborted"
                /\ UNCHANGED <<index, start_raster>>
    /\ UNCHANGED <<inputs, plan, ret, rros_params, rasters>>

Next ==
    \/ main
    \/ run_r_ros
    \/ run_r_spread
    \/ run_g_remove
    \/ run_r_null
    \/ run_r_colors

Spec == Init /\ [][Next]_vars

\* the runs checked for termination: every vector has one element per change
\* time, the optional vectors are all given or all omitted
InitFair ==
    /\ Init
    /\ time_step \in 1..2
    /\ max_time \in 0..MaxFairLag
    /\ Len(change_times) <= 2
    /\ \A j \in 1..Len(change_times) : change_times[j] <= MaxFairLag
    /\ ~LengthsMismatch(params, Len(change_times))
    /\ params["moistures_1h"].none = params["wind_velocities"].none

\* every external command is a blocking call that returns, and the statements
\* between two commands terminate: the program keeps taking its next step
FairSpec == InitFair /\ [][Next]_vars /\ WF_vars(Next)

-----------------------------------------------------------------------------
(* Specification SpecSim: simulate_fire called with lists of any lengths.   *)
(* The initial state is the one before the first iteration of the loop.     *)

\* one to MaxIntervals contiguous intervals
SimIntervalLists == { times_to_intervals(s) : s \in { t \in CheckpointSeqs : Len(t) >= 2 } }

\* the names of zero to MaxIntervals outputs
SimOutputLists ==
    {<<>>} \cup { output_names_for_intervals(basename, ivals).value : ivals \in SimIntervalLists }

\* vectors of two elements each
SimParams ==
    { ParamsOf([v \in Elements(CheckedVectors) |->
                  IF v \in present \cup {"moistures_live"} THEN 2 ELSE -1]) :
        present \in PresenceChoices }

InitSim ==
    /\ pc = "r.ros"
    /\ time_step = 1
    /\ max_time = 0
    /\ change_times = <<0>>
    /\ sim_times = <<>>
    /\ ret = NotCalled
    /\ params \in SimParams
    /\ intervals \in SimIntervalLists
    /\ data_indexes \in {<<>>} \cup SeqsUpTo(0..2, MaxIntervals)
    /\ outputs \in SimOutputLists
    /\ index = 0
    /\ start_raster = StartRaster
    /\ rros_params = InitialRosParams
    /\ log = <<>>
    /\ rasters = {}

NextSim ==
    \/ run_r_ros
    \/ run_r_spread
    \/ run_g_remove
    \/ run_r_null
    \/ run_r_colors

SpecSim == InitSim /\ [][NextSim]_vars

-----------------------------------------------------------------------------
(* Specification SpecPlan: a run of main whose change times are any list of  *)
(* times that starts with 0: options['times'] is not required to ascend.     *)

AnyChangeTimesUpTo(t) == { s \in SeqsUpTo(0..t, MaxChanges) : s[1] = 0 }

InitPlan ==
    /\ pc = "main"
    /\ time_step \in 1..MaxStep
    /\ max_time \in 0..MaxLag
    /\ change_times \in AnyChangeTimesUpTo(MaxLag + 1)
    /\ params \in { ParamsOf(f) : f \in LengthChoices(Len(change_times)) }
    /\ sim_times = <<>>
    /\ intervals = <<>>
    /\ data_indexes = <<>>
    /\ outputs = <<>>
    /\ ret = NotCalled
    /\ index = 0
    /\ start_raster = <<>>
    /\ rros_params = InitialRosParams
    /\ log = <<>>
    /\ rasters = {}

SpecPlan == InitPlan /\ [][Next]_vars


-----------------------------------------------------------------------------
(* Properties of determine_simulation_times (checked under SpecTimes) *)

\* {0, step, 2*step, ... <= max_time} united with change_times, restricted to
\* values <= max_time, ascending and duplicate-free
MergedCheckpoints(step, maxt, changes) ==
    sorted({ t \in range(maxt + 1, step) \cup Elements(changes) : t <= maxt })

\* C1: determine_simulation_times returns exactly the ascending, duplicate-free
\* list of the multiples of step up to max_time united with the change times,
\* restricted to values <= max_time.
C1_ReturnsMergedCheckpoints ==
    (pc = "done_times" /\ ret.status = "returned") =>
        ret.value = MergedCheckpoints(time_step, max_time, change_times)

\* C7: no element of the list returned by determine_simulation_times exceeds
\* max_time.
C7_NoCheckpointPastHorizon ==
    (pc = "done_times" /\ ret.status = "returned") =>
        \A j \in 1..Len(ret.value) : ret.value[j] <= max_time

\* C9: every list returned by determine_simulation_times starts with 0 and is
\* strictly ascending, so no value appears twice.
C9_StartsAtZeroStrictlyAscending ==
    (pc = "done_times" /\ ret.status = "returned") =>
        /\ Len(ret.value) >= 1
        /\ ret.value[1] = 0
        /\ StrictlyAscending(ret.value)

\* a returned list in which a change time was inserted between two periodic
\* checkpoints and a later change time coincides with a periodic checkpoint
C9_Witness ==
    /\ pc = "done_times"
    /\ ret.status = "returned"
    /\ \E j \in 1..Len(ret.value) : ret.value[j] % time_step # 0
    /\ \E k \in 2..Len(change_times) :
          /\ change_times[k] > 0
          /\ change_times[k] % time_step = 0
          /\ change_times[k] < max_time

-----------------------------------------------------------------------------
(* Properties of data_indexes_for_intervals (checked under SpecIndexes) *)

\* the greatest (0-based) index k such that data_times[k] <= t
GreatestIndexAtOrBefore(data_times, t) ==
    Max({ k \in 0..(Len(data_times) - 1) : data_times[k + 1] <= t })

\* C2: for intervals obtained by times_to_intervals from a strictly ascending
\* checkpoint sequence starting at 0, data_indexes_for_intervals emits for each
\* interval the greatest index k with change_times[k] <= the interval's start.
C2_EmitsGreatestIndex ==
    (pc = "done_indexes"
        /\ \E s \in CheckpointSeqs : Len(s) >= 2 /\ intervals = times_to_intervals(s)) =>
        ret = Returned([j \in 1..Len(intervals) |->
                            GreatestIndexAtOrBefore(change_times, intervals[j][1])])

\* C10: the list returned by data_indexes_for_intervals has the length of
\* intervals, starts at 0, is non-decreasing and every entry is at most
\* len(change_times) - 1.
C10_IndexesWellFormed ==
    pc = "done_indexes" =>
        /\ ret.status = "returned"
        /\ Len(ret.value) = Len(intervals)
        /\ ret.value[1] = 0
        /\ NonDecreasing(ret.value)
        /\ \A j \in 1..Len(ret.value) : ret.value[j] <= Len(change_times) - 1

\* the cursor reached the last change time and a further interval followed
C10_Witness ==
    /\ pc = "done_indexes"
    /\ ret.status = "returned"
    /\ Len(change_times) >= 2
    /\ Len(ret.value) >= 3
    /\ ret.value[Len(ret.value) - 1] = Len(change_times) - 1
    /\ ret.value[Len(ret.value)] = Len(change_times) - 1

-----------------------------------------------------------------------------
(* Properties of main and simulate_fire (checked under Spec) *)

Steps == {"r.ros", "r.spread", "g.remove", "r.null", "r.colors"}

PipelineSteps == <<"r.ros", "r.spread", "g.remove", "r.null", "r.colors">>

\* the invocations of the five pipeline steps, in order
PipelineLog == SelectSeq(log, LAMBDA e : e.cmd \in Steps)

\* the start artifact segment k has to be given: the start raster for segment
\* 0, the output of segment k - 1 otherwise
SeedOfSegment(k) == IF k = 0 THEN StartRaster ELSE outputs[k]

\* the simulate_fire loop has been entered
InSimulation == pc \in Steps \cup {"Succeeded", "Aborted"}

\* C3: the start artifact passed to r.spread is params.start_raster for segment
\* 0 and outputs[k-1] for every segment k >= 1; the seed is reassigned only
\* after all five steps of a segment have succeeded, so that during segment k,
\* and after an abort in segment k, it is still the seed of segment k.
C3_SeedChaining ==
    /\ \A j \in 1..Len(log) :
          log[j].cmd = "r.spread" => log[j].args.start = SeedOfSegment(log[j].index)
    /\ pc \in Steps \cup {"Aborted"} => start_raster = SeedOfSegment(index)
    /\ pc = "Succeeded" => start_raster = SeedOfSegment(Len(intervals))

\* r.spread of a segment k >= 1 has been invoked and a later step of it failed
C3_Witness ==
    /\ pc = "Aborted"
    /\ index >= 1
    /\ log[Len(log)].cmd = "r.colors"
    /\ \E j \in 1..Len(log) : log[j].cmd = "r.spread" /\ log[j].index = index

\* C4: as soon as an external step returns a failure status the run is Aborted
\* and no further external command of any kind is invoked.
C4_NothingInvokedAfterFailure ==
    \A j \in 1..Len(log) :
        log[j].ret # 0 => (pc = "Aborted" /\ j = Len(log))

\* the output artifacts of the plan that exist
ExistingOutputs == { j \in 1..Len(outputs) : outputs[j] \in rasters }

\* C5: when simulate_fire aborts at segment k, whichever step failed, the only
\* output artifacts that exist are those of the completed segments 0..k-1.
C5_OnlyCompletedPrefixExists ==
    pc = "Aborted" => ExistingOutputs = 1..index

\* the pipeline step whose failure aborted the run
FailedStep == PipelineLog[Len(PipelineLog)].cmd

\* C5 (amended): after an abort at segment k the outputs of segments 0..k-1
\* exist and no output of a segment after k exists; the output of segment k
\* does not exist when r.ros failed and exists when g.remove, r.null or
\* r.colors failed, because r.spread had written it and nothing removes it.
C5_PrefixAndCurrentOutput ==
    pc = "Aborted" =>
        /\ 1..index \subseteq ExistingOutputs
        /\ ExistingOutputs \subseteq 1..(index + 1)
        /\ FailedStep = "r.ros" => (index + 1) \notin ExistingOutputs
        /\ FailedStep \in {"g.remove", "r.null", "r.colors"} => (index + 1) \in ExistingOutputs

\* an abort by a step after r.spread in a segment k >= 1
C5_Witness ==
    /\ pc = "Aborted"
    /\ index >= 1
    /\ FailedStep = "r.null"
    /\ ExistingOutputs = 1..(index + 1)

\* C6: the five steps are invoked once each, in order, segment after segment in
\* plan order; a run without failure makes as many iterations as there are
\* intervals (checkpoints minus one) and is then Succeeded.
C6_OrderedPipeline ==
    InSimulation =>
        /\ \A j \in 1..Len(PipelineLog) :
              /\ PipelineLog[j].cmd = PipelineSteps[((j - 1) % 5) + 1]
              /\ PipelineLog[j].index = (j - 1) \div 5
        /\ Len(intervals) =
              Cardinality(export_times(max_time, time_step) \cup Elements(change_times)) - 1
        /\ pc = "Succeeded" =>
              /\ Len(PipelineLog) = 5 * Len(intervals)
              /\ \A j \in 1..Len(log) : log[j].ret = 0
        /\ (Len(PipelineLog) = 5 * Len(intervals) /\ \A j \in 1..Len(log) : log[j].ret = 0)
              => pc = "Succeeded"

\* a run of at least three segments has succeeded
C6_Witness ==
    /\ pc = "Succeeded"
    /\ Len(intervals) >= 3
    /\ Len(PipelineLog) = 5 * Len(intervals)

\* main has built the intervals
PlanBuilt == pc \notin {"main", "fatal_lengths"}

Contiguous(ivals) == \A j \in 1..(Len(ivals) - 1) : ivals[j][2] = ivals[j + 1][1]

-----------------------------------------------------------------------------
(* Properties of output_names_for_intervals (checked under SpecNames) *)

\* the number of decimal digits of a number >= 0
RECURSIVE DigitCount(_)
DigitCount(number) == IF number < 10 THEN 1 ELSE 1 + DigitCount(number \div 10)

\* the decimal digits of number, preceded by zeros up to width characters
ZeroPadded(number, width) ==
    [k \in 1..(width - DigitCount(number)) |-> "0"] \o str(number)

\* the position of a character in the character set
CharCode(c) == CASE c = "0" -> 48 [] c = "1" -> 49 [] c = "2" -> 50 [] c = "3" -> 51
                 [] c = "4" -> 52 [] c = "5" -> 53 [] c = "6" -> 54 [] c = "7" -> 55
                 [] c = "8" -> 56 [] c = "9" -> 57 [] c = "_" -> 95 [] c = "f" -> 102

\* a < b in the lexicographic order of strings
LexLess(a, b) ==
    \/ Len(a) < Len(b) /\ \A k \in 1..Len(a) : a[k] = b[k]
    \/ \E k \in 1..Len(a) :
          /\ k <= Len(b)
          /\ \A m \in 1..(k - 1) : a[m] = b[m]
          /\ CharCode(a[k]) < CharCode(b[k])

\* C11: output_names_for_intervals returns one name per interval, basename +
\* '_' + the end time zero-padded to the decimal digit count of the last
\* interval's end time; all names have the same length and their lexicographic
\* order is the chronological order of the intervals.
C11_NamesPaddedToLastWidth ==
    pc = "done_names" =>
        /\ ret = Returned([j \in 1..Len(intervals) |->
                  basename \o <<"_">> \o
                  ZeroPadded(intervals[j][2], DigitCount(intervals[Len(intervals)][2]))])
        /\ \A i, j \in 1..Len(ret.value) : Len(ret.value[i]) = Len(ret.value[j])
        /\ \A i, j \in 1..Len(ret.value) : i < j => LexLess(ret.value[i], ret.value[j])

-----------------------------------------------------------------------------
(* Properties of times_to_intervals (checked under SpecIntervals) *)

\* C14: times_to_intervals applied to a sequence of length n >= 2 returns the
\* n-1 pairs (seq[i], seq[i+1]) in order and the empty list for n < 2;
\* consecutive pairs are contiguous and, for strictly ascending input, every
\* pair has start < end.
C14_PairsOfConsecutiveTimes ==
    pc = "done_intervals" =>
        /\ ret.status = "returned"
        /\ Len(sim_times) < 2 => ret.value = <<>>
        /\ Len(sim_times) >= 2 => Len(ret.value) = Len(sim_times) - 1
        /\ \A i \in 1..Len(ret.value) :
              /\ ret.value[i][1] = sim_times[i]
              /\ ret.value[i][2] = sim_times[i + 1]
        /\ \A i \in 1..(Len(ret.value) - 1) : ret.value[i][2] = ret.value[i + 1][1]
        /\ StrictlyAscending(sim_times) =>
              \A i \in 1..Len(ret.value) : ret.value[i][1] < ret.value[i][2]

\* a strictly ascending sequence of at least three times has been paired
C14_Witness ==
    /\ pc = "done_intervals"
    /\ Len(sim_times) >= 3
    /\ StrictlyAscending(sim_times)
    /\ Len(ret.value) = Len(sim_times) - 1

-----------------------------------------------------------------------------
(* Further properties of determine_simulation_times (checked under SpecTimes) *)

\* C15: determine_simulation_times never reads change_times beyond its last
\* element: for every non-empty change_times, the one-element list included,
\* it returns a checkpoint list instead of raising an index error.
C15_ReturnsForEveryChangeTimes ==
    pc = "done_times" => ret.status = "returned"

-----------------------------------------------------------------------------
(* Properties of the length check of main (checked under Spec) *)

\* some vector that was given has not one element per change time
PresentVectorOfOtherLength ==
    \E v \in DOMAIN params :
        ~params[v].none /\ Len(params[v].items) # Len(change_times)

\* C12: if a present parameter vector has a length different from
\* len(change_times), the run ends fatally before the plan is built and before
\* any external command is invoked.
C12_FatalBeforePlanAndCommands ==
    PresentVectorOfOtherLength =>
        /\ pc \in {"main", "fatal_lengths"}
        /\ sim_times = <<>> /\ intervals = <<>> /\ data_indexes = <<>> /\ outputs = <<>>
        /\ log = <<>>
        /\ rasters = {}

\* the run has ended fatally because the last vector checked is too long
C12_Witness ==
    /\ pc = "fatal_lengths"
    /\ ~params["wind_velocities"].none
    /\ Len(params["wind_velocities"].items) > Len(change_times)
    /\ Len(params["moistures_live"].items) = Len(change_times)

-----------------------------------------------------------------------------
(* Properties of simulate_fire called directly (checked under SpecSim) *)

\* the three lists handed to simulate_fire are not of one length
PlanLengthsDiffer ==
    ~(Len(intervals) = Len(data_indexes) /\ Len(data_indexes) = Len(outputs))

\* C13: when the intervals, the index map and the output names handed to
\* simulate_fire differ in length, an error is raised before any external
\* command is invoked; the mismatch is never silently tolerated.
C13_MismatchRejectedBeforeCommands ==
    PlanLengthsDiffer => (log = <<>> /\ pc \in {"r.ros", "IndexError"})

-----------------------------------------------------------------------------
(* Further properties of simulate_fire in a run of main (checked under Spec) *)

\* C16: the three transient rate-of-spread maps written by r.ros in a segment
\* are removed by g.remove in the same segment before r.null and r.colors run;
\* at every r.ros invocation and in the Succeeded state none of them exists.
C16_TransientsRemoved ==
    /\ pc \in {"r.ros", "r.null", "r.colors", "Succeeded"} => rasters \cap RosRasters = {}
    /\ \A j \in 1..Len(log) :
          log[j].cmd \in {"r.null", "r.colors"} =>
              \E i \in 1..(j - 1) :
                  /\ log[i].cmd = "g.remove"
                  /\ log[i].index = log[j].index
                  /\ log[i].ret = 0
                  /\ Elements(log[i].args.rast) = RosRasters

\* r.ros of a segment k >= 1 is about to be invoked and no transient map is left
C16_Witness ==
    /\ pc = "r.ros"
    /\ index >= 1
    /\ rasters \cap RosRasters = {}
    /\ outputs[index] \in rasters

\* the r.spread invocations, in order
SpreadLog == SelectSeq(log, LAMBDA e : e.cmd = "r.spread")

\* C17: the r.spread call of segment i receives init_time = intervals[i].start,
\* lag = intervals[i].end - intervals[i].start (> 0) and output = outputs[i];
\* the first init_time is 0 and every later init_time is the init_time plus
\* the lag of the preceding r.spread call.
C17_SpreadTimes ==
    \A j \in 1..Len(SpreadLog) :
        LET e == SpreadLog[j]
            interval == intervals[e.index + 1]
        IN  /\ e.index = j - 1
            /\ e.args.init_time = interval[1]
            /\ e.args.lag = interval[2] - interval[1]
            /\ e.args.lag > 0
            /\ e.args.output = outputs[e.index + 1]
            /\ j = 1 => e.args.init_time = 0
            /\ j > 1 => e.args.init_time =
                          SpreadLog[j - 1].args.init_time + SpreadLog[j - 1].args.lag

\* three r.spread calls have been made, with intervals of different lengths
C17_Witness ==
    /\ Len(SpreadLog) >= 3
    /\ SpreadLog[2].args.lag # SpreadLog[3].args.lag
    /\ SpreadLog[3].args.init_time > SpreadLog[3].args.lag

\* the key under which r.ros receives the values of each vector
KeyOfVector ==
    [moistures_live |-> "moisture_live", moistures_1h |-> "moisture_1h",
     moistures_10h |-> "moisture_10h", moistures_100h |-> "moisture_100h",
     wind_directions |-> "direction", wind_velocities |-> "velocity"]

ConstantKeys == {"model", "slope", "aspect", "elevation", "output"}

\* C18: in every segment the r.ros call carries the key of an optional variable
\* exactly if its vector is present, every per-change-time value it carries is
\* the vector's element at data_indexes[i], and the constant inputs are the
\* same in every segment.
C18_RosArguments ==
    \A j \in 1..Len(log) :
        log[j].cmd = "r.ros" =>
            LET args == log[j].args
                k == data_indexes[log[j].index + 1]
            IN  /\ DOMAIN args =
                      ConstantKeys \cup { KeyOfVector[v] : v \in { w \in DOMAIN params : ~params[w].none } }
                /\ "moisture_live" \in DOMAIN args
                /\ \A v \in DOMAIN params :
                      ~params[v].none => args[KeyOfVector[v]] = <<v, k>>
                /\ args["output"] = <<"rfirespread_rros_out">>
                /\ \A c \in ConstantKeys \ {"output"} : args[c] = <<c>>

\* r.ros of a later segment has been invoked with another data index than the
\* segment before it, with one optional vector present and another absent
C18_Witness ==
    /\ ~params["wind_directions"].none
    /\ params["moistures_10h"].none
    /\ \E j \in 1..Len(log) :
          /\ log[j].cmd = "r.ros"
          /\ log[j].index >= 1
          /\ data_indexes[log[j].index + 1] # data_indexes[log[j].index]

\* C19: the output of a completed segment is kept for the rest of the run,
\* abort included: the names of a plan are pairwise distinct, every name is
\* the destination of at most one r.spread invocation (of exactly one once its
\* segment has completed), and g.remove is applied to the three transient
\* maps only, never to an output.
C19_OutputsKept ==
    InSimulation =>
        /\ \A i, j \in 1..Len(outputs) : i # j => outputs[i] # outputs[j]
        /\ \A k \in 1..index : outputs[k] \in rasters
        /\ \A k \in 1..Len(outputs) :
              LET writes == { j \in 1..Len(log) :
                                log[j].cmd = "r.spread" /\ log[j].args.output = outputs[k] }
              IN  /\ Cardinality(writes) <= 1
                  /\ k <= index => Cardinality(writes) = 1
        /\ \A j \in 1..Len(log) :
              log[j].cmd = "g.remove" =>
                  /\ Elements(log[j].args.rast) \subseteq RosRasters
                  /\ Elements(log[j].args.rast) \cap Elements(outputs) = {}

\* the run was aborted in its third segment and the two outputs are still there
C19_Witness ==
    /\ pc = "Aborted"
    /\ index = 2
    /\ outputs[1] \in rasters
    /\ outputs[2] \in rasters
    /\ \E j \in 1..Len(log) : log[j].cmd = "g.remove" /\ log[j].index = 1 /\ log[j].ret = 0

-----------------------------------------------------------------------------
(* Termination of simulate_fire (checked under FairSpec) *)

Terminal == {"Succeeded", "Aborted"}

\* C20: the orchestrator starts in Running (at the first step of segment 0,
\* with the start raster as seed); provided every external call returns it
\* eventually reaches Succeeded or Aborted; once there it takes no further
\* step, so it never returns to Running.
C20_RunningLeadsToTerminal ==
    /\ [][(pc = "main" /\ pc' \in Steps \cup Terminal) =>
            (pc' = "r.ros" /\ index' = 0 /\ start_raster' = StartRaster /\ log' = <<>>)]_vars
    /\ (pc \in Steps) ~> (pc \in Terminal)
    /\ [][pc \notin Terminal]_vars

\* a run of two or more segments has ended in Succeeded
C20_Witness ==
    /\ pc = "Succeeded"
    /\ index = Len(intervals)
    /\ index >= 2
    /\ start_raster = outputs[Len(outputs)]

-----------------------------------------------------------------------------
(* Properties of the plan main hands to simulate_fire (checked under SpecPlan) *)

\* main has called simulate_fire: the loop is running or has ended
HandedToSimulateFire == pc \in Steps \cup Terminal

\* the three lists of the plan have one entry per segment
PlanParallel == Len(data_indexes) = Len(intervals) /\ Len(outputs) = Len(intervals)

\* every data index is a position of every vector that was given
IndexesInRange ==
    \A i \in 1..Len(data_indexes) :
        \A j \in 1..Len(CheckedVectors) :
            ~params[CheckedVectors[j]].none =>
                /\ data_indexes[i] >= 0
                /\ data_indexes[i] < Len(params[CheckedVectors[j]].items)

\* C21: for every input that passes the length check of main (time_step > 0,
\* change_times starting with 0), the intervals, data indexes and output names
\* main hands to simulate_fire have the same length, every data index is a
\* position of every present parameter vector, and no step of the loop reads
\* a list out of range
C21_PlanParallelAndInRange ==
    /\ [](HandedToSimulateFire => (PlanParallel /\ IndexesInRange))
    /\ [][(pc \in Steps) => (pc' # "IndexError")]_vars

\* the second or a later segment has run r.ros with the data of a later change
\* time, for change times that are not in ascending order
C21_Witness ==
    /\ pc = "r.spread"
    /\ index >= 1
    /\ data_indexes[index + 1] >= 1
    /\ ~NonDecreasing(change_times)
    /\ ~params["wind_directions"].none
    /\ log[Len(log)].cmd = "r.ros"
    /\ log[Len(log)].args["direction"] = <<"wind_directions", data_indexes[index + 1]>>

-----------------------------------------------------------------------------
(* Properties of the parameters of each segment (checked under Spec) *)

\* the invocations of r.ros, in order
RosLog == SelectSeq(log, LAMBDA e : e.cmd = "r.ros")

\* the position in its vector of the live moisture map an r.ros call was given
IndexUsed(e) == e.args["moisture_live"][2]

\* k is the position of the latest change time at or before t
LatestChangeAtOrBefore(k, t) ==
    /\ k \in 0..(Len(change_times) - 1)
    /\ change_times[k + 1] <= t
    /\ k = Len(change_times) - 1 \/ t < change_times[k + 2]

\* C22: in a run of main with time_step > 0 and strictly increasing
\* change_times starting with 0, every r.ros call of a segment is given, for
\* every present vector, the element at the position k of the latest change
\* time at or before the start of the segment: change_times[k] <= start and
\* (k is the last position or start < change_times[k+1])
C22_SegmentUsesLatestChange ==
    StrictlyAscending(change_times) =>
        \A n \in 1..Len(RosLog) :
            LET e == RosLog[n]
                k == IndexUsed(e)
            IN  /\ LatestChangeAtOrBefore(k, intervals[e.index + 1][1])
                /\ \A j \in 1..Len(CheckedVectors) :
                      ~params[CheckedVectors[j]].none =>
                          e.args[RosKey(CheckedVectors[j])] = <<CheckedVectors[j], k>>

\* a completed run with strictly increasing change times in which one segment
\* starts after the change time whose data it uses and a later segment uses
\* the data of a later change time
C22_Witness ==
    /\ pc = "Succeeded"
    /\ StrictlyAscending(change_times)
    /\ Len(change_times) >= 2
    /\ \E n \in 1..Len(RosLog) :
          /\ IndexUsed(RosLog[n]) = 0
          /\ intervals[RosLog[n].index + 1][1] > 0
    /\ \E n \in 1..Len(RosLog) :
          /\ IndexUsed(RosLog[n]) >= 1
          /\ intervals[RosLog[n].index + 1][1] > change_times[IndexUsed(RosLog[n]) + 1]

=============================================================================
